---- MODULE Spec2Model ----
\* Model of CorePowerAnalyzer (src/github_actions_core_power_analyzer.py).
\*
\* Representation choices
\*   - A Python str is a sequence of one-character strings, so that split,
\*     strip, startswith, "in", int() and float() are computed on characters.
\*   - A Python float is an exact rational [num, den] in lowest terms with
\*     den > 0; float division by zero raises ZeroDivisionError.  Rounding,
\*     overflow and the literals float() accepts beyond plain decimals
\*     (exponents, inf, nan, underscores) are outside the inputs enumerated.
\*   - time.time() differences are whole microseconds.
\*   - self.results is a function from the keys present to their values.
\*   - A method is the keys it assigns (writes), the notices it prints and
\*     the exception it ends with.  Of print() output only the notices are
\*     kept: the error and warning lines that tell the reader that something
\*     was skipped.  Values printed for information are not carried.
\*   - self.core_count is assigned once in __init__ and read nowhere; it is
\*     not carried as a variable.
EXTENDS Integers, Sequences, FiniteSets, TLC

\* ---------------------------------------------------------------------
\* Bounds
\* ---------------------------------------------------------------------
\* longest probed file / command output, in lines
MaxLines == 2
\* most cpufreq policy directories
MaxPolicies == 2
\* largest limit passed to benchmark_prime_finding by a direct call
MaxLimit == 30
\* the limit that stands for limit=100000 of run_all_tests and of the default
\* argument, scaled so that the primes below it are counted while checking
ScaledPrimeLimit == 30
\* most direct method calls made by a client on one analyzer
MaxCalls == 2

\* ---------------------------------------------------------------------
\* Python str operations on character sequences
\* ---------------------------------------------------------------------
Whitespace == {" ", "\t", "\n"}

Digits == {"0","1","2","3","4","5","6","7","8","9"}

DigitVal(c) ==
  CASE c = "0" -> 0 [] c = "1" -> 1 [] c = "2" -> 2 [] c = "3" -> 3
    [] c = "4" -> 4 [] c = "5" -> 5 [] c = "6" -> 6 [] c = "7" -> 7
    [] c = "8" -> 8 [] c = "9" -> 9

RECURSIVE lstrip(_, _)
lstrip(s, chars) ==
  IF Len(s) > 0 /\ Head(s) \in chars THEN lstrip(Tail(s), chars) ELSE s

RECURSIVE rstrip(_, _)
rstrip(s, chars) ==
  IF Len(s) > 0 /\ s[Len(s)] \in chars
  THEN rstrip(SubSeq(s, 1, Len(s) - 1), chars)
  ELSE s

\* s.strip() is strip(s, Whitespace); s.strip('"') is strip(s, {"\""})
strip(s, chars) == rstrip(lstrip(s, chars), chars)

startswith(s, prefix) ==
  Len(s) >= Len(prefix) /\ SubSeq(s, 1, Len(prefix)) = prefix

\* sub in s
contains(s, sub) ==
  \E i \in 1..(Len(s) - Len(sub) + 1) : SubSeq(s, i, i + Len(sub) - 1) = sub

\* s.split(sep) for a one-character separator
RECURSIVE split(_, _)
split(s, sep) ==
  IF \A i \in 1..Len(s) : s[i] # sep
  THEN <<s>>
  ELSE LET i == CHOOSE k \in 1..Len(s) :
                  s[k] = sep /\ \A j \in 1..(k - 1) : s[j] # sep
       IN <<SubSeq(s, 1, i - 1)>> \o split(SubSeq(s, i + 1, Len(s)), sep)

\* s.split(): runs of whitespace separate, no empty fields
RECURSIVE split_ws(_)
split_ws(s) ==
  LET t == lstrip(s, Whitespace)
  IN IF Len(t) = 0
     THEN <<>>
     ELSE LET stops == {k \in 1..Len(t) : t[k] \in Whitespace}
              n == IF stops = {} THEN Len(t) + 1
                   ELSE CHOOSE k \in stops : \A j \in stops : k <= j
          IN <<SubSeq(t, 1, n - 1)>> \o split_ws(SubSeq(t, n, Len(t)))

IsDigits(s) == Len(s) > 0 /\ \A i \in 1..Len(s) : s[i] \in Digits

RECURSIVE DigitsVal(_)
DigitsVal(s) ==
  IF Len(s) = 0 THEN 0
  ELSE DigitsVal(SubSeq(s, 1, Len(s) - 1)) * 10 + DigitVal(s[Len(s)])

RECURSIVE Pow10(_)
Pow10(k) == IF k = 0 THEN 1 ELSE 10 * Pow10(k - 1)

\* ---------------------------------------------------------------------
\* Python float as an exact rational
\* ---------------------------------------------------------------------
Abs(x) == IF x < 0 THEN -x ELSE x

RECURSIVE GCD(_, _)
GCD(a, b) == IF b = 0 THEN a ELSE GCD(b, a % b)

\* the rational n/d (d # 0) in lowest terms
Rat(n, d) ==
  LET g == GCD(Abs(n), Abs(d))
      sgn == IF d < 0 THEN -1 ELSE 1
  IN [num |-> sgn * (n \div g), den |-> sgn * (d \div g)]

RatOfInt(n) == [num |-> n, den |-> 1]

RatAdd(a, b) == Rat(a.num * b.den + b.num * a.den, a.den * b.den)

RatMul(a, b) == Rat(a.num * b.num, a.den * b.den)

\* a / b; the caller raises ZeroDivisionError when b.num = 0
RatDiv(a, b) == Rat(a.num * b.den, a.den * b.num)

RatLess(a, b) == a.num * b.den < b.num * a.den

\* int(s): surrounding whitespace and one sign are accepted, then digits only
py_int(s) ==
  LET t == strip(s, Whitespace)
      signed == Len(t) > 0 /\ Head(t) \in {"+", "-"}
      u == IF signed THEN Tail(t) ELSE t
  IN IF IsDigits(u)
     THEN [ok |-> TRUE,
           val |-> IF signed /\ Head(t) = "-" THEN -DigitsVal(u) ELSE DigitsVal(u)]
     ELSE [ok |-> FALSE, val |-> 0]

\* float(s) on plain decimals: digits, optionally one point with digits on
\* at least one side
py_float(s) ==
  LET t == strip(s, Whitespace)
      signed == Len(t) > 0 /\ Head(t) \in {"+", "-"}
      u == IF signed THEN Tail(t) ELSE t
      parts == split(u, ".")
      ip == parts[1]
      fp == IF Len(parts) = 2 THEN parts[2] ELSE <<>>
      wellFormed == /\ Len(parts) <= 2
                    /\ Len(ip) + Len(fp) > 0
                    /\ \A i \in 1..Len(ip) : ip[i] \in Digits
                    /\ \A i \in 1..Len(fp) : fp[i] \in Digits
      mag == Rat(DigitsVal(ip) * Pow10(Len(fp)) + DigitsVal(fp), Pow10(Len(fp)))
  IN IF wellFormed
     THEN [ok |-> TRUE,
           val |-> IF signed /\ Head(t) = "-" THEN Rat(-mag.num, mag.den) ELSE mag]
     ELSE [ok |-> FALSE, val |-> RatOfInt(0)]

\* ---------------------------------------------------------------------
\* Literals of the source
\* ---------------------------------------------------------------------
\* the text 'PRETTY_NAME'
S_PRETTY_NAME ==
  <<"P","R","E","T","T","Y","_","N","A","M","E">>

\* the text 'Model name'
S_Model_name ==
  <<"M","o","d","e","l"," ","n","a","m","e">>

\* the text 'CPU(s)'
S_CPUs ==
  <<"C","P","U","(","s",")">>

\* the text 'Thread(s) per core'
S_Threads_per_core ==
  <<"T","h","r","e","a","d","(","s",")"," ","p","e","r"," ","c","o","r","e">>

\* the text 'cpu MHz'
S_cpu_MHz ==
  <<"c","p","u"," ","M","H","z">>

\* the text 'MemTotal'
S_MemTotal ==
  <<"M","e","m","T","o","t","a","l">>

\* the text 'MemAvailable'
S_MemAvailable ==
  <<"M","e","m","A","v","a","i","l","a","b","l","e">>

\* ---------------------------------------------------------------------
\* Inputs: what the host can present to the probes
\* ---------------------------------------------------------------------
\* a line 'PRETTY_NAME="Ubuntu"'
OsPretty ==
  <<"P","R","E","T","T","Y","_","N","A","M","E","=","\"","U","b","u","n","t","u","\"">>

\* a line 'PRETTY_NAME'
OsPrettyNoEq ==
  <<"P","R","E","T","T","Y","_","N","A","M","E">>

\* a line 'ID=ubuntu'
OsOther ==
  <<"I","D","=","u","b","u","n","t","u">>

\* a line 'x86_64\n'
UnameX86 ==
  <<"x","8","6","_","6","4","\n">>

\* a line 'Model name: EPYC'
LscpuModel ==
  <<"M","o","d","e","l"," ","n","a","m","e",":"," ","E","P","Y","C">>

\* a line 'Model name'
LscpuModelNoColon ==
  <<"M","o","d","e","l"," ","n","a","m","e">>

\* a line 'CPU(s): 4'
LscpuCpus4 ==
  <<"C","P","U","(","s",")",":"," ","4">>

\* a line 'CPU(s): 1'
LscpuCpus1 ==
  <<"C","P","U","(","s",")",":"," ","1">>

\* a line 'On-line CPU(s) list: 0'
LscpuOnline0 ==
  <<"O","n","-","l","i","n","e"," ","C","P","U","(","s",")"," ","l","i","s","t",":"," ","0">>

\* a line 'On-line CPU(s) list: 0-3'
LscpuOnline03 ==
  <<"O","n","-","l","i","n","e"," ","C","P","U","(","s",")"," ","l","i","s","t",":"," ","0","-","3">>

\* a line 'Thread(s) per core: 2'
LscpuThreads2 ==
  <<"T","h","r","e","a","d","(","s",")"," ","p","e","r"," ","c","o","r","e",":"," ","2">>

\* a line 'cpu MHz\t\t: 3000.000'
CpuinfoMHz3000 ==
  <<"c","p","u"," ","M","H","z","\t","\t",":"," ","3","0","0","0",".","0","0","0">>

\* a line 'cpu MHz\t\t: 2000.000'
CpuinfoMHz2000 ==
  <<"c","p","u"," ","M","H","z","\t","\t",":"," ","2","0","0","0",".","0","0","0">>

\* a line 'cpu MHz\t\t: n/a'
CpuinfoMHzBad ==
  <<"c","p","u"," ","M","H","z","\t","\t",":"," ","n","/","a">>

\* a line 'cpu MHz'
CpuinfoMHzNoColon ==
  <<"c","p","u"," ","M","H","z">>

\* a line 'processor\t: 0'
CpuinfoOther ==
  <<"p","r","o","c","e","s","s","o","r","\t",":"," ","0">>

\* a line '3500000\n'
MaxFreqOk ==
  <<"3","5","0","0","0","0","0","\n">>

\* a line '<unknown>\n'
MaxFreqBad ==
  <<"<","u","n","k","n","o","w","n",">","\n">>

\* a line 'MemTotal: 2097152 kB'
MemTotalOk ==
  <<"M","e","m","T","o","t","a","l",":"," ","2","0","9","7","1","5","2"," ","k","B">>

\* a line 'MemTotal: n/a kB'
MemTotalBad ==
  <<"M","e","m","T","o","t","a","l",":"," ","n","/","a"," ","k","B">>

\* a line 'MemAvailable: 1048576 kB'
MemAvailOk ==
  <<"M","e","m","A","v","a","i","l","a","b","l","e",":"," ","1","0","4","8","5","7","6"," ","k","B">>

\* a line 'MemAvailable:'
MemAvailShort ==
  <<"M","e","m","A","v","a","i","l","a","b","l","e",":">>

\* a line 'MemFree: 4096 kB'
MemOther ==
  <<"M","e","m","F","r","e","e",":"," ","4","0","9","6"," ","k","B">>

\* the output of `uname -r`
KernelRelease ==
  <<"6",".","8",".","0","\n">>

OsReleaseLines == {OsPretty, OsPrettyNoEq, OsOther}

\* the output of `uname -m`
UnameOutputs == {UnameX86}

LscpuLines ==
  {LscpuModel, LscpuModelNoColon, LscpuCpus4, LscpuCpus1,
   LscpuOnline0, LscpuOnline03, LscpuThreads2}

CpuinfoLines ==
  {CpuinfoMHz3000, CpuinfoMHz2000, CpuinfoMHzBad, CpuinfoMHzNoColon, CpuinfoOther}

MeminfoLines == {MemTotalOk, MemTotalBad, MemAvailOk, MemAvailShort, MemOther}

\* a policy directory without cpuinfo_max_freq, or with one of two contents
Policies ==
  {[exists |-> FALSE, text |-> <<>>],
   [exists |-> TRUE, text |-> MaxFreqOk],
   [exists |-> TRUE, text |-> MaxFreqBad]}

\* how subprocess.check_output fails: command missing, or non-zero exit
CommandFailures == {"FileNotFoundError", "CalledProcessError"}

\* values of time.strftime("%Y-%m-%d %H:%M:%S")
Timestamps == {"2026-01-01 00:00:00", "2026-01-01 00:00:01"}

\* elapsed microseconds a benchmark can measure
Elapsed == {0, 1500}

SeqsUpTo(S, n) == UNION {[1..k -> S] : k \in 0..n}

\* the text of a file or command output made of the given lines
RECURSIVE JoinLines(_)
JoinLines(lines) ==
  IF Len(lines) = 0 THEN <<>> ELSE Head(lines) \o <<"\n">> \o JoinLines(Tail(lines))

Texts(lineSet) == {JoinLines(ls) : ls \in SeqsUpTo(lineSet, MaxLines)}

\* which sources the host exposes
Hosts ==
  [osrelease : BOOLEAN, uname : BOOLEAN, lscpu : BOOLEAN,
   cpuinfo : BOOLEAN, cpufreq : BOOLEAN, meminfo : BOOLEAN]

NoFile == [exists |-> FALSE, text |-> <<>>]

FileOf(present, lineSet) ==
  IF present THEN {[exists |-> TRUE, text |-> t] : t \in Texts(lineSet)} ELSE {NoFile}

CommandOf(present, outputs) ==
  IF present
  THEN {[exc |-> "none", out |-> o] : o \in outputs}
  ELSE {[exc |-> e, out |-> <<>>] : e \in CommandFailures}

PoliciesOf(present) ==
  IF present THEN SeqsUpTo(Policies, MaxPolicies) ELSE {<<>>}

\* ---------------------------------------------------------------------
\* Writes to the result store
\* ---------------------------------------------------------------------
\* self.results[k] = v
Put(res, k, v) == [x \in DOMAIN res \cup {k} |-> IF x = k THEN v ELSE res[x]]

\* the store after the assignments `writes` of one call, each key keeping
\* its last value
Update(res, writes) ==
  [x \in DOMAIN res \cup DOMAIN writes |->
     IF x \in DOMAIN writes THEN writes[x] ELSE res[x]]

NoWrites == <<>>

Done(writes, notices) == [writes |-> writes, notices |-> notices, raised |-> "none"]

Raise(writes, notices, exc) == [writes |-> writes, notices |-> notices, raised |-> exc]

\* `for line in f`: the lines of a text, each keeping its newline
RECURSIVE readlines(_)
readlines(text) ==
  IF Len(text) = 0
  THEN <<>>
  ELSE LET stops == {k \in 1..Len(text) : text[k] = "\n"}
           n == IF stops = {} THEN Len(text)
                ELSE CHOOSE k \in stops : \A j \in stops : k <= j
       IN <<SubSeq(text, 1, n)>> \o readlines(SubSeq(text, n + 1, Len(text)))

\* ---------------------------------------------------------------------
\* get_system_info
\* ---------------------------------------------------------------------
\* the loop over /etc/os-release: the first PRETTY_NAME line is split at "="
\* and ends the loop; the result is the exception that escapes
RECURSIVE ScanOsRelease(_)
ScanOsRelease(lines) ==
  IF Len(lines) = 0
  THEN "none"
  ELSE IF startswith(Head(lines), S_PRETTY_NAME)
       THEN IF Len(split(Head(lines), "=")) < 2 THEN "IndexError" ELSE "none"
       ELSE ScanOsRelease(Tail(lines))

get_system_info(osrel, kernelCmd, archCmd) ==
  LET os == IF osrel.exists THEN ScanOsRelease(readlines(osrel.text)) ELSE "none"
  IN IF os # "none" THEN Raise(NoWrites, {}, os)
     ELSE IF kernelCmd.exc # "none" THEN Raise(NoWrites, {}, kernelCmd.exc)
     ELSE IF archCmd.exc # "none" THEN Raise(NoWrites, {}, archCmd.exc)
     ELSE Done(Put(NoWrites, "arch", strip(archCmd.out, Whitespace)), {})

\* ---------------------------------------------------------------------
\* get_cpu_specs
\* ---------------------------------------------------------------------
\* the loop over the lines of the lscpu output; exc is what escapes the loop
RECURSIVE ParseLscpu(_, _)
ParseLscpu(lines, writes) ==
  IF Len(lines) = 0
  THEN [writes |-> writes, exc |-> "none"]
  ELSE LET line == Head(lines)
           fields == split(line, ":")
       IN IF contains(line, S_Model_name)
          THEN IF Len(fields) < 2
               THEN [writes |-> writes, exc |-> "IndexError"]
               ELSE ParseLscpu(Tail(lines),
                               Put(writes, "cpu_model", strip(fields[2], Whitespace)))
          ELSE IF contains(line, S_CPUs) /\ contains(line, <<":">>)
          THEN LET cpus == py_int(strip(fields[2], Whitespace))
               IN IF cpus.ok
                  THEN ParseLscpu(Tail(lines), Put(writes, "cpu_count", cpus.val))
                  ELSE ParseLscpu(Tail(lines), writes)
          \* a "Thread(s) per core" line is only printed, and both its
          \* IndexError and its ValueError are passed over
          ELSE IF contains(line, S_Threads_per_core)
          THEN ParseLscpu(Tail(lines), writes)
          ELSE ParseLscpu(Tail(lines), writes)

get_cpu_specs(lscpu) ==
  IF lscpu.exc # "none"
  THEN Done(NoWrites, {"Error running lscpu"})
  ELSE LET p == ParseLscpu(split(lscpu.out, "\n"), NoWrites)
       IN Done(p.writes, IF p.exc # "none" THEN {"Error running lscpu"} ELSE {})

\* ---------------------------------------------------------------------
\* get_cpu_frequencies
\* ---------------------------------------------------------------------
\* mhz_values: the values of the "cpu MHz" lines that float() accepts
RECURSIVE CollectMHz(_)
CollectMHz(lines) ==
  IF Len(lines) = 0
  THEN <<>>
  ELSE LET line == Head(lines)
           fields == split(line, ":")
           mhz == IF Len(fields) >= 2 THEN py_float(strip(fields[2], Whitespace))
                  ELSE [ok |-> FALSE, val |-> RatOfInt(0)]
       IN IF startswith(line, S_cpu_MHz) /\ mhz.ok
          THEN <<mhz.val>> \o CollectMHz(Tail(lines))
          ELSE CollectMHz(Tail(lines))

\* sum(mhz_values)
RECURSIVE RatSum(_)
RatSum(vals) ==
  IF Len(vals) = 0 THEN RatOfInt(0) ELSE RatAdd(Head(vals), RatSum(Tail(vals)))

\* the loop over the cpufreq policies: the first one that has
\* cpuinfo_max_freq is read, stored and ends the loop
RECURSIVE ReadMaxFreq(_, _)
ReadMaxFreq(policies, writes) ==
  IF Len(policies) = 0
  THEN Done(writes, {})
  ELSE IF Head(policies).exists
       THEN LET khz == py_int(strip(Head(policies).text, Whitespace))
            IN IF ~khz.ok
               THEN Raise(writes, {}, "ValueError")
               ELSE Done(Put(writes, "max_freq_mhz", Rat(khz.val, 1000)), {})
       ELSE ReadMaxFreq(Tail(policies), writes)

get_cpu_frequencies(cpuinfo, policies) ==
  LET mhz_values == IF cpuinfo.exists THEN CollectMHz(split(cpuinfo.text, "\n")) ELSE <<>>
      avg_mhz == RatDiv(RatSum(mhz_values), RatOfInt(Len(mhz_values)))
  IN ReadMaxFreq(policies,
       IF Len(mhz_values) > 0
       THEN Put(Put(NoWrites, "avg_clock_mhz", avg_mhz), "all_clock_speeds", mhz_values)
       ELSE NoWrites)

\* ---------------------------------------------------------------------
\* get_memory_info
\* ---------------------------------------------------------------------
\* the loop over /proc/meminfo; a line that raises ends it with what was
\* stored so far
RECURSIVE ParseMeminfo(_, _)
ParseMeminfo(lines, writes) ==
  IF Len(lines) = 0
  THEN Done(writes, {})
  ELSE LET line == Head(lines)
           words == split_ws(line)
           kb == py_int(words[2])
           isTotal == startswith(line, S_MemTotal)
       IN IF isTotal \/ startswith(line, S_MemAvailable)
          THEN IF Len(words) < 2 THEN Raise(writes, {}, "IndexError")
               ELSE IF ~kb.ok THEN Raise(writes, {}, "ValueError")
               ELSE ParseMeminfo(Tail(lines),
                      Put(writes, IF isTotal THEN "total_mem_gb" ELSE "avail_mem_gb",
                          Rat(kb.val, 1024 * 1024)))
          ELSE ParseMeminfo(Tail(lines), writes)

get_memory_info(meminfo) ==
  IF meminfo.exists THEN ParseMeminfo(readlines(meminfo.text), NoWrites)
  ELSE Done(NoWrites, {})

\* ---------------------------------------------------------------------
\* Benchmarks.  us is the measured time.time() difference in microseconds;
\* duration_ms is us / 1000 and a division by duration raises when us = 0.
\* ---------------------------------------------------------------------
\* the loop sum is not kept: nothing after the loop reads total;
\* gops = (iterations / duration) / 1e9 = iterations / (us * 1000)
benchmark_single_core_arithmetic(iterations, us) ==
  IF us = 0
  THEN Raise(NoWrites, {}, "ZeroDivisionError")
  ELSE Done(Put(Put(NoWrites, "arithmetic_benchmark_ms", Rat(us, 1000)),
                "arithmetic_gops", Rat(iterations, us * 1000)), {})

\* fib(n) itself is only printed
benchmark_fibonacci_single_thread(n, us) ==
  Done(Put(NoWrites, "fibonacci_ms", Rat(us, 1000)), {})

\* int(math.sqrt(n)), searched upwards from r
RECURSIVE isqrt_from(_, _)
isqrt_from(n, r) == IF (r + 1) * (r + 1) > n THEN r ELSE isqrt_from(n, r + 1)

isqrt(n) == isqrt_from(n, 0)

\* for i in range(i, stop, 2): if n % i == 0: return False; then return True
RECURSIVE TrialDivision(_, _, _)
TrialDivision(n, i, stop) ==
  IF i >= stop THEN TRUE
  ELSE IF n % i = 0 THEN FALSE
  ELSE TrialDivision(n, i + 2, stop)

\* is_prime with the trial divisors stopping one short of the square root
is_prime_short(n) ==
  IF n < 2 THEN FALSE
  ELSE IF n = 2 THEN TRUE
  ELSE IF n % 2 = 0 THEN FALSE
  ELSE TrialDivision(n, 3, isqrt(n))

is_prime(n) ==
  IF n < 2 THEN FALSE
  ELSE IF n = 2 THEN TRUE
  ELSE IF n % 2 = 0 THEN FALSE
  ELSE TrialDivision(n, 3, isqrt(n) + 1)

\* primes = [n for n in range(2, limit) if is_prime(n)]
primes(limit) == SelectSeq([i \in 1..(limit - 2) |-> i + 1], is_prime)

benchmark_prime_finding(limit, us) ==
  IF us = 0
  THEN Raise(NoWrites, {}, "ZeroDivisionError")
  ELSE Done(Put(Put(NoWrites, "prime_finding_ms", Rat(us, 1000)),
                "primes_found", Len(primes(limit))), {})

\* the sorted list is not kept: nothing after the sort reads lst
benchmark_memory_intensive(size, us) ==
  IF us = 0
  THEN Raise(NoWrites, {}, "ZeroDivisionError")
  ELSE Done(Put(NoWrites, "sort_benchmark_ms", Rat(us, 1000)), {})

\* ---------------------------------------------------------------------
\* calculate_core_power
\* ---------------------------------------------------------------------
\* the prerequisite test with `and` in place of `or`
InsufficientData_and(res) ==
  "cpu_count" \notin DOMAIN res /\ "avg_clock_mhz" \notin DOMAIN res

InsufficientData(res) ==
  "cpu_count" \notin DOMAIN res \/ "avg_clock_mhz" \notin DOMAIN res

\* the peak with the ipc factor left out
peak_gflops_no_ipc(cores, clock_mhz, ipc) ==
  RatDiv(RatMul(RatOfInt(cores), clock_mhz), RatOfInt(1000))

\* (cores * clock_mhz * ipc) / 1000
peak_gflops(cores, clock_mhz, ipc) ==
  RatDiv(RatMul(RatMul(RatOfInt(cores), clock_mhz), RatOfInt(ipc)), RatOfInt(1000))

\* self.results[k] used as a value raises KeyError when k is absent
calculate_core_power(res) ==
  IF InsufficientData(res)
  THEN Done(NoWrites, {"Insufficient data for calculation"})
  ELSE IF "cpu_count" \notin DOMAIN res \/ "avg_clock_mhz" \notin DOMAIN res
  THEN Raise(NoWrites, {}, "KeyError")
  ELSE LET cores == res["cpu_count"]
           clock_mhz == res["avg_clock_mhz"]
           clock_ghz == RatDiv(clock_mhz, RatOfInt(1000))
       IN Done(Put(Put(Put(NoWrites,
                 "theoretical_peak_gflops_ipc1", peak_gflops(cores, clock_mhz, 1)),
                 "theoretical_peak_gflops_ipc2", peak_gflops(cores, clock_mhz, 2)),
                 "per_core_gflops", clock_ghz), {})

\* ---------------------------------------------------------------------
\* generate_performance_rating
\* ---------------------------------------------------------------------
\* the if/elif chain over arithmetic_ms
rating_of(arithmetic_ms) ==
  IF RatLess(arithmetic_ms, RatOfInt(80))
  THEN [rating |-> "EXCELLENT", reason |-> "Well-provisioned, no throttling"]
  ELSE IF RatLess(arithmetic_ms, RatOfInt(150))
  THEN [rating |-> "GOOD", reason |-> "Normal performance"]
  ELSE IF RatLess(arithmetic_ms, RatOfInt(250))
  THEN [rating |-> "ACCEPTABLE", reason |-> "Some system load or throttling"]
  ELSE IF RatLess(arithmetic_ms, RatOfInt(400))
  THEN [rating |-> "DEGRADED", reason |-> "Possible thermal throttling"]
  ELSE [rating |-> "POOR", reason |-> "Significant throttling or overload"]

\* `if arithmetic_ms:` -- results.get() gave a value and the float is not 0.0
arithmetic_ms_truthy(res) ==
  "arithmetic_benchmark_ms" \in DOMAIN res /\ res["arithmetic_benchmark_ms"].num # 0

\* the GitHub Actions comparison line, printed when cores is present and not 0
core_tier(res) ==
  IF "cpu_count" \in DOMAIN res /\ res["cpu_count"] # 0
  THEN IF res["cpu_count"] >= 4 THEN {"Public Repo tier"}
       ELSE IF res["cpu_count"] >= 2 THEN {"Private Repo tier"}
       ELSE {"Limited tier"}
  ELSE {}

\* what generate_performance_rating prints: no or one rating with its
\* reason, and no or one core-count tier
generate_performance_rating(res) ==
  [arithmetic |-> IF arithmetic_ms_truthy(res)
                  THEN <<rating_of(res["arithmetic_benchmark_ms"])>>
                  ELSE <<>>,
   cores |-> core_tier(res)]

\* ---------------------------------------------------------------------
\* export_json
\* ---------------------------------------------------------------------
\* the dict built and returned by export_json; "metrics" is bound to the
\* object self.results itself, named here by the reference "self.results"
export_json(timestamp) ==
  [timestamp |-> timestamp, environment |-> "GitHub Actions", metrics |-> "self.results"]

\* ---------------------------------------------------------------------
\* What each probe can do on a host.  A probe assigns keys and never reads
\* the store, so its outcomes are computed once per kind of host.
\* ---------------------------------------------------------------------
SystemInfoOutcomes ==
  [osrelease \in BOOLEAN, uname \in BOOLEAN |->
     {get_system_info(osrel, kernelCmd, archCmd) :
        osrel \in FileOf(osrelease, OsReleaseLines),
        kernelCmd \in CommandOf(uname, {KernelRelease}),
        archCmd \in CommandOf(uname, UnameOutputs)}]

CpuSpecsOutcomes ==
  [lscpu \in BOOLEAN |->
     {get_cpu_specs(out) : out \in CommandOf(lscpu, Texts(LscpuLines))}]

CpuFrequenciesOutcomes ==
  [cpuinfo \in BOOLEAN, cpufreq \in BOOLEAN |->
     {get_cpu_frequencies(file, policies) :
        file \in FileOf(cpuinfo, CpuinfoLines), policies \in PoliciesOf(cpufreq)}]

MemoryInfoOutcomes ==
  [meminfo \in BOOLEAN |->
     {get_memory_info(file) : file \in FileOf(meminfo, MeminfoLines)}]

\* ---------------------------------------------------------------------
\* State
\* ---------------------------------------------------------------------
VARIABLES
  host,      \* which sources the machine exposes
  results,   \* self.results
  console,   \* the notices printed so far
  rating,    \* what the last generate_performance_rating printed
  report,    \* <<>> or <<the dict last returned by export_json>>
  raised,    \* the exception the last call ended with, or "none"
  lastCall,  \* the last method called, its size argument, its elapsed time
  pc,        \* the statement run_all_tests is at; "client" outside a run
  calls      \* direct calls made so far

vars == <<host, results, console, rating, report, raised, lastCall, pc, calls>>

\* the dict a reference denotes in the current state
Deref(ref) == CASE ref = "self.results" -> results

\* __init__
Constructed ==
  /\ results = <<>>
  /\ console = {}
  /\ rating = [arithmetic |-> <<>>, cores |-> {}]
  /\ report = <<>>
  /\ raised = "none"
  /\ lastCall = [op |-> "__init__", n |-> 0, us |-> 0]
  /\ calls = 0

Outcome(op, n, us, out) ==
  /\ results' = Update(results, out.writes)
  /\ console' = console \cup out.notices
  /\ raised' = out.raised
  /\ lastCall' = [op |-> op, n |-> n, us |-> us]

\* ---------------------------------------------------------------------
\* One call of each method
\* ---------------------------------------------------------------------
Call_get_system_info ==
  /\ \E out \in SystemInfoOutcomes[host.osrelease, host.uname] :
       Outcome("get_system_info", 0, 0, out)
  /\ UNCHANGED <<host, rating, report>>

Call_get_cpu_specs ==
  /\ \E out \in CpuSpecsOutcomes[host.lscpu] : Outcome("get_cpu_specs", 0, 0, out)
  /\ UNCHANGED <<host, rating, report>>

Call_get_cpu_frequencies ==
  /\ \E out \in CpuFrequenciesOutcomes[host.cpuinfo, host.cpufreq] :
       Outcome("get_cpu_frequencies", 0, 0, out)
  /\ UNCHANGED <<host, rating, report>>

Call_get_memory_info ==
  /\ \E out \in MemoryInfoOutcomes[host.meminfo] : Outcome("get_memory_info", 0, 0, out)
  /\ UNCHANGED <<host, rating, report>>

Call_benchmark_single_core_arithmetic(iterations) ==
  /\ \E us \in Elapsed :
       Outcome("benchmark_single_core_arithmetic", iterations, us,
               benchmark_single_core_arithmetic(iterations, us))
  /\ UNCHANGED <<host, rating, report>>

Call_benchmark_fibonacci_single_thread(n) ==
  /\ \E us \in Elapsed :
       Outcome("benchmark_fibonacci_single_thread", n, us,
               benchmark_fibonacci_single_thread(n, us))
  /\ UNCHANGED <<host, rating, report>>

Call_benchmark_prime_finding(limit) ==
  /\ \E us \in Elapsed :
       Outcome("benchmark_prime_finding", limit, us, benchmark_prime_finding(limit, us))
  /\ UNCHANGED <<host, rating, report>>

Call_benchmark_memory_intensive(size) ==
  /\ \E us \in Elapsed :
       Outcome("benchmark_memory_intensive", size, us,
               benchmark_memory_intensive(size, us))
  /\ UNCHANGED <<host, rating, report>>

Call_calculate_core_power ==
  /\ Outcome("calculate_core_power", 0, 0, calculate_core_power(results))
  /\ UNCHANGED <<host, rating, report>>

Call_generate_performance_rating ==
  /\ rating' = generate_performance_rating(results)
  /\ raised' = "none"
  /\ lastCall' = [op |-> "generate_performance_rating", n |-> 0, us |-> 0]
  /\ UNCHANGED <<host, results, console, report>>

Call_export_json ==
  /\ \E timestamp \in Timestamps : report' = <<export_json(timestamp)>>
  /\ raised' = "none"
  /\ lastCall' = [op |-> "export_json", n |-> 0, us |-> 0]
  /\ UNCHANGED <<host, results, console, rating>>

\* ---------------------------------------------------------------------
\* run_all_tests: the calls in order; an exception leaves the run
\* ---------------------------------------------------------------------
Step(at, next) ==
  /\ pc = at
  /\ pc' = IF raised' = "none" THEN next ELSE "aborted"
  /\ UNCHANGED calls

Run_get_system_info ==
  Call_get_system_info /\ Step("get_system_info", "get_cpu_specs")

Run_get_cpu_specs ==
  Call_get_cpu_specs /\ Step("get_cpu_specs", "get_cpu_frequencies")

Run_get_cpu_frequencies ==
  Call_get_cpu_frequencies /\ Step("get_cpu_frequencies", "get_memory_info")

Run_get_memory_info ==
  Call_get_memory_info /\ Step("get_memory_info", "benchmark_single_core_arithmetic")

Run_benchmark_single_core_arithmetic ==
  /\ Call_benchmark_single_core_arithmetic(100000000)
  /\ Step("benchmark_single_core_arithmetic", "benchmark_fibonacci_single_thread")

Run_benchmark_fibonacci_single_thread ==
  /\ Call_benchmark_fibonacci_single_thread(35)
  /\ Step("benchmark_fibonacci_single_thread", "benchmark_prime_finding")

Run_benchmark_prime_finding ==
  /\ Call_benchmark_prime_finding(ScaledPrimeLimit)
  /\ Step("benchmark_prime_finding", "benchmark_memory_intensive")

Run_benchmark_memory_intensive ==
  /\ Call_benchmark_memory_intensive(5000000)
  /\ Step("benchmark_memory_intensive", "calculate_core_power")

Run_calculate_core_power ==
  Call_calculate_core_power /\ Step("calculate_core_power", "generate_performance_rating")

Run_generate_performance_rating ==
  Call_generate_performance_rating /\ Step("generate_performance_rating", "export_json")

Run_export_json ==
  Call_export_json /\ Step("export_json", "done")

\* a fresh analyzer on any host, about to run_all_tests
Init == Constructed /\ host \in Hosts /\ pc = "get_system_info"

Next ==
  \/ Run_get_system_info
  \/ Run_get_cpu_specs
  \/ Run_get_cpu_frequencies
  \/ Run_get_memory_info
  \/ Run_benchmark_single_core_arithmetic
  \/ Run_benchmark_fibonacci_single_thread
  \/ Run_benchmark_prime_finding
  \/ Run_benchmark_memory_intensive
  \/ Run_calculate_core_power
  \/ Run_generate_performance_rating
  \/ Run_export_json

Spec == Init /\ [][Next]_vars

\* ---------------------------------------------------------------------
\* Direct calls: a client calls the public methods of one analyzer in any
\* order, each with its default arguments
\* ---------------------------------------------------------------------
Client ==
  /\ pc = "client"
  /\ calls < MaxCalls
  /\ calls' = calls + 1
  /\ pc' = pc

Client_get_system_info == Client /\ Call_get_system_info

Client_get_cpu_specs == Client /\ Call_get_cpu_specs

Client_get_cpu_frequencies == Client /\ Call_get_cpu_frequencies

Client_get_memory_info == Client /\ Call_get_memory_info

Client_benchmark_single_core_arithmetic ==
  Client /\ Call_benchmark_single_core_arithmetic(100000000)

Client_benchmark_fibonacci_single_thread ==
  Client /\ Call_benchmark_fibonacci_single_thread(35)

Client_benchmark_prime_finding ==
  Client /\ Call_benchmark_prime_finding(ScaledPrimeLimit)

Client_benchmark_memory_intensive ==
  Client /\ Call_benchmark_memory_intensive(10000000)

Client_calculate_core_power == Client /\ Call_calculate_core_power

Client_generate_performance_rating == Client /\ Call_generate_performance_rating

Client_export_json == Client /\ Call_export_json

InitApi == Constructed /\ host \in Hosts /\ pc = "client"

NextApi ==
  \/ Client_get_system_info
  \/ Client_get_cpu_specs
  \/ Client_get_cpu_frequencies
  \/ Client_get_memory_info
  \/ Client_benchmark_single_core_arithmetic
  \/ Client_benchmark_fibonacci_single_thread
  \/ Client_benchmark_prime_finding
  \/ Client_benchmark_memory_intensive
  \/ Client_calculate_core_power
  \/ Client_generate_performance_rating
  \/ Client_export_json

SpecApi == InitApi /\ [][NextApi]_vars

\* ---------------------------------------------------------------------
\* benchmark_prime_finding as a function of its limit
\* ---------------------------------------------------------------------
PresentHost ==
  [osrelease |-> TRUE, uname |-> TRUE, lscpu |-> TRUE,
   cpuinfo |-> TRUE, cpufreq |-> TRUE, meminfo |-> TRUE]

PrimeLimits == (0..MaxLimit) \cup {100}

InitPrimes == Constructed /\ host = PresentHost /\ pc = "client"

PrimeFinding ==
  /\ \E limit \in PrimeLimits : Call_benchmark_prime_finding(limit)
  /\ UNCHANGED <<pc, calls>>

NextPrimes == PrimeFinding

SpecPrimes == InitPrimes /\ [][NextPrimes]_vars

\* ---------------------------------------------------------------------
\* generate_performance_rating as a function of the store it reads
\* ---------------------------------------------------------------------
\* elapsed microseconds around the rating thresholds, 0 included
RatingElapsed ==
  {0, 1, 79900, 80000, 149900, 150000, 249900, 250000, 399900, 400000, 1000000}

RatingCores == {0, 1, 2, 4}

RatingStores ==
  {Update(ms, cores) :
     ms \in {NoWrites} \cup {Put(NoWrites, "arithmetic_benchmark_ms", Rat(us, 1000)) :
                               us \in RatingElapsed},
     cores \in {NoWrites} \cup {Put(NoWrites, "cpu_count", c) : c \in RatingCores}}

InitRating ==
  /\ host = PresentHost
  /\ results \in RatingStores
  /\ console = {}
  /\ rating = [arithmetic |-> <<>>, cores |-> {}]
  /\ report = <<>>
  /\ raised = "none"
  /\ lastCall = [op |-> "__init__", n |-> 0, us |-> 0]
  /\ calls = 0
  /\ pc = "client"

Rating ==
  /\ Call_generate_performance_rating
  /\ UNCHANGED <<pc, calls>>

NextRating == Rating

SpecRating == InitRating /\ [][NextRating]_vars

\* ---------------------------------------------------------------------
\* Properties
\* ---------------------------------------------------------------------
AbsentHost ==
  [osrelease |-> FALSE, uname |-> FALSE, lscpu |-> FALSE,
   cpuinfo |-> FALSE, cpufreq |-> FALSE, meminfo |-> FALSE]

ElapsedKeys ==
  {"arithmetic_benchmark_ms", "fibonacci_ms", "prime_finding_ms", "sort_benchmark_ms"}

BenchmarkKeys == ElapsedKeys \cup {"arithmetic_gops", "primes_found"}

DerivedKeys ==
  {"theoretical_peak_gflops_ipc1", "theoretical_peak_gflops_ipc2", "per_core_gflops"}

ProbeKeys ==
  {"arch", "cpu_model", "cpu_count", "avg_clock_mhz", "all_clock_speeds",
   "max_freq_mhz", "total_mem_gb", "avail_mem_gb"}

ProbeOps ==
  {"get_system_info", "get_cpu_specs", "get_cpu_frequencies", "get_memory_info"}

\* C1: a full run on a host where every OS fact is unavailable ends
\* completed, never aborted: all four benchmarks have recorded their elapsed
\* time, export_json has returned a report, and the report's metrics hold
\* benchmark-derived keys only.
C1_RunCompletesWithoutOsFacts ==
  (host = AbsentHost /\ pc \in {"done", "aborted"}) =>
    /\ pc = "done"
    /\ ElapsedKeys \subseteq DOMAIN results
    /\ Len(report) = 1
    /\ DOMAIN Deref(report[1].metrics) \subseteq BenchmarkKeys

\* the tiers of the documented classification whose interval holds t ms
DocumentedTiers(t) ==
  {b.tier : b \in
     {x \in {[tier |-> "EXCELLENT", lo |-> 0, hi |-> 80],
             [tier |-> "GOOD", lo |-> 80, hi |-> 150],
             [tier |-> "ACCEPTABLE", lo |-> 150, hi |-> 250],
             [tier |-> "DEGRADED", lo |-> 250, hi |-> 400]} :
        ~RatLess(t, RatOfInt(x.lo)) /\ RatLess(t, RatOfInt(x.hi))}}
  \cup (IF ~RatLess(t, RatOfInt(400)) THEN {"POOR"} ELSE {})

C3_ProbesSkipMalformedInput ==
  ~(lastCall.op \in ProbeOps /\ raised = "ValueError")

DividingBenchmarks ==
  {"benchmark_single_core_arithmetic", "benchmark_prime_finding",
   "benchmark_memory_intensive"}

ElapsedKeyOf(op) ==
  CASE op = "benchmark_single_core_arithmetic" -> "arithmetic_benchmark_ms"
    [] op = "benchmark_prime_finding" -> "prime_finding_ms"
    [] op = "benchmark_memory_intensive" -> "sort_benchmark_ms"

\* C4: a benchmark that divides by its elapsed time and measured exactly
\* zero has completed without raising and has recorded its elapsed-ms key.
C4_ZeroElapsedIsGuarded ==
  (lastCall.op \in DividingBenchmarks /\ lastCall.us = 0) =>
    /\ raised = "none"
    /\ ElapsedKeyOf(lastCall.op) \in DOMAIN results

\* the notices of the source that explain why key k is absent
NoticesAbout(k) ==
  IF k \in {"cpu_model", "cpu_count"} THEN {"Error running lscpu"}
  ELSE IF k \in DerivedKeys THEN {"Insufficient data for calculation"}
  ELSE {}

\* C5: at the end of a completed run, every fact or derived field that is
\* absent from the result store has a notice on the console explaining it.
C5_EveryOmissionHasNotice ==
  pc = "done" =>
    \A k \in (ProbeKeys \cup DerivedKeys) \ DOMAIN results :
      NoticesAbout(k) \cap console # {}

\* C6: once export_json has returned a report, no later operation on the
\* analyzer changes the metrics of that report.
C6_ReportIsSnapshot ==
  [][(Len(report) = 1 /\ report' = report) =>
       Deref(report[1].metrics)' = Deref(report[1].metrics)]_vars

\* C7: in a run, when calculate_core_power starts with cpu_count or
\* avg_clock_mhz missing it prints the warning, raises nothing and leaves
\* the result store as it was, and the run goes on to the rating and,
\* from there, to the export and the end without aborting.
C7_MissingPrerequisiteSkips ==
  [][/\ (/\ pc = "calculate_core_power"
         /\ ("cpu_count" \notin DOMAIN results \/ "avg_clock_mhz" \notin DOMAIN results)) =>
          /\ results' = results
          /\ "Insufficient data for calculation" \in console'
          /\ raised' = "none"
          /\ pc' = "generate_performance_rating"
     /\ (pc = "generate_performance_rating") => pc' = "export_json"
     /\ (pc = "export_json") => (pc' = "done" /\ Len(report') = 1)]_vars

C7_Witness ==
  /\ pc = "generate_performance_rating"
  /\ lastCall.op = "calculate_core_power"
  /\ "cpu_count" \notin DOMAIN results
  /\ "avg_clock_mhz" \in DOMAIN results
  /\ DerivedKeys \cap DOMAIN results = {}
  /\ "Insufficient data for calculation" \in console

\* C8: in a run, once calculate_core_power has run with cpu_count and
\* avg_clock_mhz present, the store holds ipc1 = cores * clock / 1000,
\* ipc2 = exactly twice ipc1 and per_core_gflops = clock / 1000; with
\* cores = 4 and clock = 3000 these are 12 and 24.
C8_TheoreticalPeaks ==
  (/\ pc \in {"generate_performance_rating", "export_json", "done"}
   /\ "cpu_count" \in DOMAIN results
   /\ "avg_clock_mhz" \in DOMAIN results) =>
    /\ DerivedKeys \subseteq DOMAIN results
    /\ LET cores == results["cpu_count"]
           clock == results["avg_clock_mhz"]
           ipc1 == results["theoretical_peak_gflops_ipc1"]
           ipc2 == results["theoretical_peak_gflops_ipc2"]
           per_core == results["per_core_gflops"]
       IN /\ ipc1.num * 1000 * clock.den = cores * clock.num * ipc1.den
          /\ ipc2.num * ipc1.den = 2 * ipc1.num * ipc2.den
          /\ per_core.num * 1000 * clock.den = clock.num * per_core.den
          /\ (cores = 4 /\ clock = [num |-> 3000, den |-> 1]) =>
               /\ ipc1 = [num |-> 12, den |-> 1]
               /\ ipc2 = [num |-> 24, den |-> 1]

C8_Witness ==
  /\ pc = "done"
  /\ "cpu_count" \in DOMAIN results
  /\ "avg_clock_mhz" \in DOMAIN results
  /\ results["cpu_count"] = 4
  /\ results["avg_clock_mhz"] = [num |-> 3000, den |-> 1]
  /\ "theoretical_peak_gflops_ipc2" \in DOMAIN results
  /\ results["theoretical_peak_gflops_ipc2"] = [num |-> 24, den |-> 1]

\* the number of primes below limit: what is left of 2..limit-1 once every
\* multiple of a smaller number is struck out
ReferenceSieve(limit) ==
  Cardinality((2..(limit - 1)) \
              {a * b : a \in 2..(limit - 1), b \in 2..(limit - 1)})

\* C9: the primes_found recorded by benchmark_prime_finding(limit) is the
\* number of primes below limit given by the reference sieve.
C9_PrimesFoundMatchesSieve ==
  (lastCall.op = "benchmark_prime_finding" /\ raised = "none") =>
    /\ "primes_found" \in DOMAIN results
    /\ results["primes_found"] = ReferenceSieve(lastCall.n)

C9_Witness ==
  /\ lastCall.op = "benchmark_prime_finding"
  /\ lastCall.n = 100
  /\ raised = "none"
  /\ "primes_found" \in DOMAIN results
  /\ results["primes_found"] = 25

\* the values of the lines of the inventory whose label is exactly CPU(s)
TotalCpuValues ==
  {py_int(split(line, ":")[2]).val :
     line \in {l \in LscpuLines : strip(split(l, ":")[1], Whitespace) = S_CPUs}}

\* C10: the cpu_count in the result store is the value of a total
\* "CPU(s):" line of the CPU inventory; no other line sets it.
C10_CpuCountIsTotalLine ==
  "cpu_count" \in DOMAIN results => results["cpu_count"] \in TotalCpuValues

====
